---- MODULE Spec2Model ----
(***************************************************************************)
(* Model of the Minesweeper knowledge-base agent of                        *)
(* src/minesweeper/minesweeper.py: the board (Minesweeper), the constraint *)
(* (Sentence) and the inference engine and move policy (MinesweeperAI).    *)
(*                                                                         *)
(* A cell is a pair <<row, col>> with 0-based coordinates, as in the code. *)
(* A Sentence is a record [cells |-> set of cells, count |-> integer];     *)
(* record equality is the code's Sentence.__eq__.                          *)
(* add_knowledge is modelled at the granularity of its statements that     *)
(* change the engine's state: the prologue up to the append, every single  *)
(* mark_mine/mark_safe call of the propagation loop, and the elimination   *)
(* pass; pc/idx/todo hold the position inside the running call.            *)
(***************************************************************************)
EXTENDS Integers, Sequences, FiniteSets

\* ---------------------------------------------------------------- bounds
MaxCells == 7
MaxMines == 2
MaxReveals == 3
MaxReruns == 1
MaxSentenceCells == 4
MaxApiCells == 4
MaxApiCalls == 2
MaxGameCells == 6

VARIABLES
    height,      \* Minesweeper.height = MinesweeperAI.height
    width,       \* Minesweeper.width  = MinesweeperAI.width
    board,       \* Minesweeper.mines: the set of mined cells of the board
    moves_made,  \* MinesweeperAI.moves_made
    mines,       \* MinesweeperAI.mines
    safes,       \* MinesweeperAI.safes
    knowledge,   \* MinesweeperAI.knowledge: list of Sentences
    pc,          \* position inside the running call, "idle" between calls
    idx,         \* index (1-based) of the sentence the propagation loop is at
    todo,        \* cells of the copied known_mines()/known_safes() set still to mark
    cur,         \* arguments <<cell, count>> of the running/last add_knowledge
    fresh,       \* the Sentence add_knowledge built, as appended (line 204)
    inferBase,   \* len(knowledge) when the latest elimination pass started
    prevBase,    \* len(knowledge) when the elimination pass before that one started
    op,          \* the step add_knowledge/infer_new_sentences took last
    ret,         \* value returned by the last make_safe_move/make_random_move
    nreveals,    \* number of add_knowledge calls so far
    nreruns,     \* number of explicit infer_new_sentences calls so far
    nmarks,      \* number of direct mark_mine/mark_safe calls by the caller so far
    due,         \* <<index, Sentence>> of the non-empty constraints that were
                 \* resolvable when the running/last add_knowledge was invoked
    constraint   \* a Sentence object of its own, outside any knowledge base

vars == <<height, width, board, moves_made, mines, safes, knowledge, pc, idx,
          todo, cur, fresh, inferBase, prevBase, op, ret, nreveals, nreruns,
          nmarks, due, constraint>>

\* Python's None, as returned by the move functions
None == <<>>

\* ----------------------------------------------------------------- board
Deltas == {-1, 0, 1}

\* the 8-neighbourhood enumerated by the double loop over di, dj with (0,0) skipped
Neighbors(cell) ==
    {<<cell[1] + di, cell[2] + dj>> : di \in Deltas, dj \in Deltas} \ {cell}

Cells(h, w) == {<<i, j>> : i \in 0..(h - 1), j \in 0..(w - 1)}

\* faulty variant of in_range: the upper limits are taken as inclusive
in_range_inclusive(h, w, cell) ==
    0 <= cell[1] /\ cell[1] <= h /\ 0 <= cell[2] /\ cell[2] <= w

in_range(h, w, cell) == 0 <= cell[1] /\ cell[1] < h /\ 0 <= cell[2] /\ cell[2] < w

is_mine(b, cell) == cell \in b

nearby_mines(h, w, b, cell) ==
    Cardinality({n \in Neighbors(cell) : in_range(h, w, n) /\ is_mine(b, n)})

\* the outcome of a call of a board method: the exception raised, or the value
Raised(message) == [raised |-> TRUE, value |-> message]
Returns(value) == [raised |-> FALSE, value |-> value]

\* Minesweeper.is_mine and Minesweeper.nearby_mines with their range check
IsMineResult(h, w, b, cell) ==
    IF ~in_range(h, w, cell) THEN Raised("out of range!")
    ELSE Returns(is_mine(b, cell))

NearbyMinesResult(h, w, b, cell) ==
    IF ~in_range(h, w, cell) THEN Raised("out of range!")
    ELSE Returns(nearby_mines(h, w, b, cell))

\* -------------------------------------------------------------- Sentence
Sentence(cells, count) == [cells |-> cells, count |-> count]

\* faulty variants of known_mines: the comparison with len(self.cells) left out,
\* and `!= 0` written `== 0`
known_mines_no_len(s) == IF s.count # 0 THEN s.cells ELSE {}

known_mines_eq_zero(s) ==
    IF Cardinality(s.cells) = s.count /\ s.count = 0 THEN s.cells ELSE {}

\* None is modelled as the empty set: both are falsy in `if sentence.known_mines()`
known_mines(s) ==
    IF Cardinality(s.cells) = s.count /\ s.count # 0 THEN s.cells ELSE {}

\* faulty variant of known_safes: `== 0` written `<= 0`
known_safes_le(s) == IF s.count <= 0 THEN s.cells ELSE {}

known_safes(s) == IF s.count = 0 THEN s.cells ELSE {}

\* faulty variant of Sentence.mark_mine: the count is not decremented
SentenceMarkMine_no_decrement(s, cell) ==
    IF cell \in s.cells THEN Sentence(s.cells \ {cell}, s.count) ELSE s

SentenceMarkMine(s, cell) ==
    IF cell \in s.cells THEN Sentence(s.cells \ {cell}, s.count - 1) ELSE s

\* faulty variant of Sentence.mark_safe: the count is decremented as in mark_mine
SentenceMarkSafe_decrement(s, cell) ==
    IF cell \in s.cells THEN Sentence(s.cells \ {cell}, s.count - 1) ELSE s

SentenceMarkSafe(s, cell) ==
    IF cell \in s.cells THEN Sentence(s.cells \ {cell}, s.count) ELSE s

\* ----------------------------------------------------- MinesweeperAI state
Range(seq) == {seq[i] : i \in 1..Len(seq)}

\* faulty variants of the loops of mark_mine and mark_safe: the last sentence is
\* not updated; a sentence left without cells is removed from the list
MarkMineKnowledge_skip_last(kb, cell) ==
    [i \in 1..Len(kb) |-> IF i = Len(kb) THEN kb[i] ELSE SentenceMarkMine(kb[i], cell)]

MarkSafeKnowledge_drop_empty(kb, cell) ==
    SelectSeq([i \in 1..Len(kb) |-> SentenceMarkSafe(kb[i], cell)],
              LAMBDA s : s.cells # {})

\* MinesweeperAI.mark_mine: the knowledge list after the loop over all sentences
MarkMineKnowledge(kb, cell) == [i \in 1..Len(kb) |-> SentenceMarkMine(kb[i], cell)]

MarkMineSet(ms, cell) == ms \cup {cell}

\* MinesweeperAI.mark_safe
MarkSafeKnowledge(kb, cell) == [i \in 1..Len(kb) |-> SentenceMarkSafe(kb[i], cell)]

MarkSafeSet(ss, cell) == ss \cup {cell}

\* faulty variants of the elimination loop: only the pairs with sentence1 before
\* sentence2 are compared; the test `new_sentence not in self.knowledge` is
\* left out
RECURSIVE InferLoop_upper(_, _, _)
InferLoop_upper(kb, k, new) ==
    LET n == Len(kb) IN
    IF k >= n * n THEN new
    ELSE LET sentence1 == kb[(k \div n) + 1]
             sentence2 == kb[(k % n) + 1]
             new_sentence == Sentence(sentence2.cells \ sentence1.cells,
                                      sentence2.count - sentence1.count)
         IN IF (k \div n) < (k % n)
               /\ sentence1 # sentence2 /\ sentence1.cells \subseteq sentence2.cells
               /\ new_sentence \notin Range(kb)
               /\ new_sentence \notin Range(new)
            THEN InferLoop_upper(kb, k + 1, Append(new, new_sentence))
            ELSE InferLoop_upper(kb, k + 1, new)

RECURSIVE InferLoop_no_known(_, _, _)
InferLoop_no_known(kb, k, new) ==
    LET n == Len(kb) IN
    IF k >= n * n THEN new
    ELSE LET sentence1 == kb[(k \div n) + 1]
             sentence2 == kb[(k % n) + 1]
             new_sentence == Sentence(sentence2.cells \ sentence1.cells,
                                      sentence2.count - sentence1.count)
         IN IF sentence1 # sentence2 /\ sentence1.cells \subseteq sentence2.cells
               /\ new_sentence \notin Range(new)
            THEN InferLoop_no_known(kb, k + 1, Append(new, new_sentence))
            ELSE InferLoop_no_known(kb, k + 1, new)

\* faulty variant of the elimination loop: the test `new_sentence not in
\* new_knowledge` is left out
RECURSIVE InferLoop_no_staged(_, _, _)
InferLoop_no_staged(kb, k, new) ==
    LET n == Len(kb) IN
    IF k >= n * n THEN new
    ELSE LET sentence1 == kb[(k \div n) + 1]
             sentence2 == kb[(k % n) + 1]
             new_sentence == Sentence(sentence2.cells \ sentence1.cells,
                                      sentence2.count - sentence1.count)
         IN IF sentence1 # sentence2 /\ sentence1.cells \subseteq sentence2.cells
               /\ new_sentence \notin Range(kb)
            THEN InferLoop_no_staged(kb, k + 1, Append(new, new_sentence))
            ELSE InferLoop_no_staged(kb, k + 1, new)

\* the derived sentence keeps the count of the larger sentence
RECURSIVE InferLoop_keep_count(_, _, _)
InferLoop_keep_count(kb, k, new) ==
    LET n == Len(kb) IN
    IF k >= n * n THEN new
    ELSE LET sentence1 == kb[(k \div n) + 1]
             sentence2 == kb[(k % n) + 1]
             new_sentence == Sentence(sentence2.cells \ sentence1.cells,
                                      sentence2.count)
         IN IF sentence1 # sentence2 /\ sentence1.cells \subseteq sentence2.cells
               /\ new_sentence \notin Range(kb)
               /\ new_sentence \notin Range(new)
            THEN InferLoop_keep_count(kb, k + 1, Append(new, new_sentence))
            ELSE InferLoop_keep_count(kb, k + 1, new)

\* MinesweeperAI.infer_new_sentences: the double loop over self.knowledge, as one
\* loop over k = (i-1)*n + (j-1); `new` is new_knowledge
RECURSIVE InferLoop(_, _, _)
InferLoop(kb, k, new) ==
    LET n == Len(kb) IN
    IF k >= n * n THEN new
    ELSE LET sentence1 == kb[(k \div n) + 1]
             sentence2 == kb[(k % n) + 1]
             new_sentence == Sentence(sentence2.cells \ sentence1.cells,
                                      sentence2.count - sentence1.count)
         IN IF sentence1 # sentence2 /\ sentence1.cells \subseteq sentence2.cells
               /\ new_sentence \notin Range(kb)
               /\ new_sentence \notin Range(new)
            THEN InferLoop(kb, k + 1, Append(new, new_sentence))
            ELSE InferLoop(kb, k + 1, new)

infer_new_sentences(kb) == kb \o InferLoop(kb, 0, <<>>)

\* faulty variant of the construction of the new Sentence: cells known to be safe
\* are kept among the undetermined cells
NewSentence_keep_safes(h, w, ss, ms, cell, count) ==
    LET count_mines == Cardinality({n \in Neighbors(cell) : n \in ms})
        undtermined_moves ==
            {n \in Neighbors(cell) : in_range(h, w, n) /\ n \notin ms}
    IN Sentence(undtermined_moves, count - count_mines)

\* faulty variants of the construction of the new Sentence: known mines are
\* kept among the undetermined cells; the count is not reduced by the known mines
NewSentence_keep_mines(h, w, ss, ms, cell, count) ==
    LET count_mines == Cardinality({n \in Neighbors(cell) : n \in ms})
        undtermined_moves ==
            {n \in Neighbors(cell) : in_range(h, w, n) /\ n \notin ss}
    IN Sentence(undtermined_moves, count - count_mines)

NewSentence_no_decrement(h, w, ss, ms, cell, count) ==
    LET undtermined_moves ==
            {n \in Neighbors(cell) : in_range(h, w, n) /\ n \notin ss /\ n \notin ms}
    IN Sentence(undtermined_moves, count)

\* add_knowledge, lines 184-204: the Sentence built for the revealed cell, from
\* the safe and mine sets as they are after mark_safe(cell)
NewSentence(h, w, ss, ms, cell, count) ==
    LET count_mines == Cardinality({n \in Neighbors(cell) : n \in ms})
        undtermined_moves ==
            {n \in Neighbors(cell) : in_range(h, w, n) /\ n \notin ss /\ n \notin ms}
    IN Sentence(undtermined_moves, count - count_mines)

\* ------------------------------------------------------------------ Init
\* Minesweeper(height, width, mines) with any placement of the mines, and a
\* MinesweeperAI(height, width) as constructed
Init ==
    /\ height \in 1..MaxCells
    /\ width \in 1..MaxCells
    /\ height * width <= MaxCells
    /\ board \in {b \in SUBSET Cells(height, width) :
                    Cardinality(b) <= MaxMines /\ Cardinality(b) < height * width}
    /\ moves_made = {}
    /\ mines = {}
    /\ safes = {}
    /\ knowledge = <<>>
    /\ pc = "idle"
    /\ idx = 0
    /\ todo = {}
    /\ cur = <<None, 0>>
    /\ fresh = Sentence({}, 0)
    /\ inferBase = 0
    /\ prevBase = 0
    /\ op = "init"
    /\ ret = None
    /\ nreveals = 0
    /\ nreruns = 0
    /\ nmarks = 0
    /\ due = {}
    /\ constraint = Sentence({}, 0)

\* --------------------------------------------------------------- actions
\* a constraint the propagation pass acts on when it has cells: known_safes()
\* or known_mines() yields all of them
Resolvable(s) == s.count = 0 \/ (s.count = Cardinality(s.cells) /\ s.count > 0)

ResolvableAt(kb) ==
    {<<i, kb[i]>> : i \in {j \in 1..Len(kb) : Resolvable(kb[j]) /\ kb[j].cells # {}}}

\* faulty variant of the start of add_knowledge: the revealed cell is not marked
\* safe
AddKnowledgeBegin_no_safe(cell, count) ==
    /\ pc = "idle"
    /\ nreveals < MaxReveals
    /\ moves_made' = moves_made \cup {cell}
    /\ safes' = safes
    /\ fresh' = NewSentence(height, width, safes', mines, cell, count)
    /\ knowledge' = Append(knowledge, fresh')
    /\ pc' = "propagate"
    /\ idx' = 1
    /\ todo' = {}
    /\ cur' = <<cell, count>>
    /\ op' = "add_knowledge"
    /\ ret' = None
    /\ nreveals' = nreveals + 1
    /\ due' = ResolvableAt(knowledge)
    /\ UNCHANGED <<height, width, board, mines, inferBase, prevBase, nreruns,
                   nmarks, constraint>>

\* add_knowledge(cell, count), lines 181-204: up to and including the append
AddKnowledgeBegin(cell, count) ==
    /\ pc = "idle"
    /\ nreveals < MaxReveals
    /\ moves_made' = moves_made \cup {cell}
    /\ safes' = MarkSafeSet(safes, cell)
    /\ fresh' = NewSentence(height, width, safes', mines, cell, count)
    /\ knowledge' = Append(MarkSafeKnowledge(knowledge, cell), fresh')
    /\ pc' = "propagate"
    /\ idx' = 1
    /\ todo' = {}
    /\ cur' = <<cell, count>>
    /\ op' = "add_knowledge"
    /\ ret' = None
    /\ nreveals' = nreveals + 1
    /\ due' = ResolvableAt(knowledge)
    /\ UNCHANGED <<height, width, board, mines, inferBase, prevBase, nreruns,
                   nmarks, constraint>>

\* the driver's reveal of a cell that is not mined, with the board's true count
Reveal ==
    \E cell \in Cells(height, width) \ board :
        AddKnowledgeBegin(cell, nearby_mines(height, width, board, cell))

\* faulty variant of the visit: known_safes() is not tested
PropagateVisit_mines_only ==
    /\ pc = "propagate"
    /\ idx <= Len(knowledge)
    /\ LET sentence == knowledge[idx] IN
       IF known_mines(sentence) # {}
       THEN /\ pc' = "mark_mines"
            /\ todo' = known_mines(sentence)
            /\ idx' = idx
       ELSE /\ pc' = "propagate"
            /\ todo' = {}
            /\ idx' = idx + 1
    /\ op' = "propagate"
    /\ UNCHANGED <<height, width, board, moves_made, mines, safes, knowledge, cur,
                   fresh, inferBase, prevBase, ret, nreveals, nreruns,
                   nmarks, due, constraint>>

\* lines 207-208, 211: the loop reaches knowledge[idx] and tests known_mines(),
\* then known_safes()
PropagateVisit ==
    /\ pc = "propagate"
    /\ idx <= Len(knowledge)
    /\ LET sentence == knowledge[idx] IN
       IF known_mines(sentence) # {}
       THEN /\ pc' = "mark_mines"
            /\ todo' = known_mines(sentence)
            /\ idx' = idx
       ELSE IF known_safes(sentence) # {}
       THEN /\ pc' = "mark_safes"
            /\ todo' = known_safes(sentence)
            /\ idx' = idx
       ELSE /\ pc' = "propagate"
            /\ todo' = {}
            /\ idx' = idx + 1
    /\ op' = "propagate"
    /\ UNCHANGED <<height, width, board, moves_made, mines, safes, knowledge, cur,
                   fresh, inferBase, prevBase, ret, nreveals, nreruns,
                   nmarks, due, constraint>>

\* lines 209-211: one self.mark_mine(cell) of the loop over the copied set (in
\* any order); after the last one, the test of known_safes() of the same sentence
PropagateMarkMine ==
    /\ pc = "mark_mines"
    /\ \E cell \in todo :
        /\ mines' = MarkMineSet(mines, cell)
        /\ knowledge' = MarkMineKnowledge(knowledge, cell)
        /\ IF todo \ {cell} # {}
           THEN /\ todo' = todo \ {cell}
                /\ pc' = "mark_mines"
                /\ idx' = idx
           ELSE IF known_safes(knowledge'[idx]) # {}
           THEN /\ todo' = known_safes(knowledge'[idx])
                /\ pc' = "mark_safes"
                /\ idx' = idx
           ELSE /\ todo' = {}
                /\ pc' = "propagate"
                /\ idx' = idx + 1
    /\ op' = "mark_mine"
    /\ UNCHANGED <<height, width, board, moves_made, safes, cur, fresh, inferBase,
                   prevBase, ret, nreveals, nreruns,
                   nmarks, due, constraint>>

\* lines 212-213: one self.mark_safe(cell) of the loop over the copied set
PropagateMarkSafe ==
    /\ pc = "mark_safes"
    /\ \E cell \in todo :
        /\ safes' = MarkSafeSet(safes, cell)
        /\ knowledge' = MarkSafeKnowledge(knowledge, cell)
        /\ IF todo \ {cell} # {}
           THEN /\ todo' = todo \ {cell}
                /\ pc' = "mark_safes"
                /\ idx' = idx
           ELSE /\ todo' = {}
                /\ pc' = "propagate"
                /\ idx' = idx + 1
    /\ op' = "mark_safe"
    /\ UNCHANGED <<height, width, board, moves_made, mines, cur, fresh, inferBase,
                   prevBase, ret, nreveals, nreruns,
                   nmarks, due, constraint>>

\* faulty variant of the end of add_knowledge: the cells of the derived
\* constraints that are known safe are marked at once
AddKnowledgeInfer_eager ==
    /\ pc = "propagate"
    /\ idx > Len(knowledge)
    /\ LET derived == InferLoop(knowledge, 0, <<>>)
           known == UNION {known_safes(s) : s \in Range(derived)}
       IN /\ knowledge' = [i \in 1..(Len(knowledge) + Len(derived)) |->
                             Sentence((knowledge \o derived)[i].cells \ known,
                                      (knowledge \o derived)[i].count)]
          /\ safes' = safes \cup known
    /\ prevBase' = inferBase
    /\ inferBase' = Len(knowledge)
    /\ pc' = "idle"
    /\ idx' = 0
    /\ op' = "infer"
    /\ UNCHANGED <<height, width, board, moves_made, mines, todo, cur, fresh,
                   ret, nreveals, nreruns,
                   nmarks, due, constraint>>

\* line 216: the propagation loop is over; the elimination pass runs and
\* add_knowledge returns
AddKnowledgeInfer ==
    /\ pc = "propagate"
    /\ idx > Len(knowledge)
    /\ knowledge' = infer_new_sentences(knowledge)
    /\ prevBase' = inferBase
    /\ inferBase' = Len(knowledge)
    /\ pc' = "idle"
    /\ idx' = 0
    /\ op' = "infer"
    /\ UNCHANGED <<height, width, board, moves_made, mines, safes, todo, cur, fresh,
                   ret, nreveals, nreruns,
                   nmarks, due, constraint>>

\* an explicit call of infer_new_sentences between two add_knowledge calls
InferRerun ==
    /\ pc = "idle"
    /\ nreruns < MaxReruns
    /\ knowledge' = infer_new_sentences(knowledge)
    /\ prevBase' = inferBase
    /\ inferBase' = Len(knowledge)
    /\ op' = "infer_rerun"
    /\ nreruns' = nreruns + 1
    /\ UNCHANGED <<height, width, board, moves_made, mines, safes, pc, idx, todo,
                   cur, fresh, ret, nreveals,
                   nmarks, due, constraint>>

\* faulty variant: the test `cell not in self.moves_made` is left out
SafeMoves_all(ss, mm) == ss

\* make_safe_move: the first cell of the iteration over self.safes that is not
\* in moves_made (the set's iteration order is any order), else None
SafeMoves(ss, mm) == {cell \in ss : cell \notin mm}

MakeSafeMove ==
    /\ pc = "idle"
    /\ IF SafeMoves(safes, moves_made) # {}
       THEN ret' \in SafeMoves(safes, moves_made)
       ELSE ret' = None
    /\ pc' = "safe_move_returned"
    /\ UNCHANGED <<height, width, board, moves_made, mines, safes, knowledge, idx,
                   todo, cur, fresh, inferBase, prevBase, op, nreveals, nreruns,
                   nmarks, due, constraint>>

\* faulty variant: the test `(i, j) not in self.mines` is left out
RandomMoves_with_mines(h, w, mm, ms) == {cell \in Cells(h, w) : cell \notin mm}

\* faulty variant: the test `(i, j) not in self.moves_made` is left out
RandomMoves_with_made(h, w, mm, ms) == {cell \in Cells(h, w) : cell \notin ms}

\* make_random_move: random.choice over the cells of the grid that are neither
\* played nor known mines, else None
RandomMoves(h, w, mm, ms) ==
    {cell \in Cells(h, w) : cell \notin mm /\ cell \notin ms}

MakeRandomMove ==
    /\ pc = "idle"
    /\ IF RandomMoves(height, width, moves_made, mines) # {}
       THEN ret' \in RandomMoves(height, width, moves_made, mines)
       ELSE ret' = None
    /\ pc' = "random_move_returned"
    /\ UNCHANGED <<height, width, board, moves_made, mines, safes, knowledge, idx,
                   todo, cur, fresh, inferBase, prevBase, op, nreveals, nreruns,
                   nmarks, due, constraint>>

\* the caller has taken the value a move function returned
MoveReturned ==
    /\ pc \in {"safe_move_returned", "random_move_returned"}
    /\ pc' = "idle"
    /\ ret' = None
    /\ UNCHANGED <<height, width, board, moves_made, mines, safes, knowledge, idx,
                   todo, cur, fresh, inferBase, prevBase, op, nreveals, nreruns,
                   nmarks, due, constraint>>

Next ==
    \/ Reveal
    \/ PropagateVisit
    \/ PropagateMarkMine
    \/ PropagateMarkSafe
    \/ AddKnowledgeInfer
    \/ MakeSafeMove
    \/ MakeRandomMove
    \/ MoveReturned

Spec == Init /\ [][Next]_vars

\* a game that is stopped between two calls, after which the elimination pass
\* is re-run explicitly, up to MaxReruns times in succession
GameStep == nreruns = 0 /\ Next

NextRerun == GameStep \/ InferRerun

SpecRerun == Init /\ [][NextRerun]_vars

\* ------------------------------------------- any calls by the caller
\* a MinesweeperAI on a board of at most MaxApiCells cells that receives up to
\* MaxApiCalls calls of add_knowledge (for any cell of the grid, mined or not)
\* and of mark_mine and mark_safe (for any cell of the grid), and any number of
\* make_safe_move and make_random_move calls
ApiInit == Init /\ height * width <= MaxApiCells

ApiAddKnowledge ==
    /\ nreveals + nmarks < MaxApiCalls
    /\ \E cell \in Cells(height, width) :
        AddKnowledgeBegin(cell, nearby_mines(height, width, board, cell))

ApiFrame ==
    UNCHANGED <<height, width, board, moves_made, pc, idx, todo, fresh, inferBase,
                prevBase, ret, nreveals, nreruns, due, constraint>>

\* ai.mark_mine(cell) called directly
MarkMineCall ==
    /\ pc = "idle"
    /\ nreveals + nmarks < MaxApiCalls
    /\ \E cell \in Cells(height, width) :
        /\ mines' = MarkMineSet(mines, cell)
        /\ knowledge' = MarkMineKnowledge(knowledge, cell)
        /\ cur' = <<cell>>
    /\ op' = "mark_mine_call"
    /\ nmarks' = nmarks + 1
    /\ UNCHANGED safes
    /\ ApiFrame

\* ai.mark_safe(cell) called directly
MarkSafeCall ==
    /\ pc = "idle"
    /\ nreveals + nmarks < MaxApiCalls
    /\ \E cell \in Cells(height, width) :
        /\ safes' = MarkSafeSet(safes, cell)
        /\ knowledge' = MarkSafeKnowledge(knowledge, cell)
        /\ cur' = <<cell>>
    /\ op' = "mark_safe_call"
    /\ nmarks' = nmarks + 1
    /\ UNCHANGED mines
    /\ ApiFrame

NextApi ==
    \/ ApiAddKnowledge
    \/ PropagateVisit
    \/ PropagateMarkMine
    \/ PropagateMarkSafe
    \/ AddKnowledgeInfer
    \/ MarkMineCall
    \/ MarkSafeCall
    \/ MakeSafeMove
    \/ MakeRandomMove
    \/ MoveReturned

SpecApi == ApiInit /\ [][NextApi]_vars

\* ------------------------------------------------------ a driven game
\* a driver that plays one game on a board of at most MaxGameCells cells: it
\* takes make_safe_move(), or make_random_move() when that returned None, stops
\* when both returned None or when the chosen cell is mined, and otherwise
\* reveals the chosen cell with add_knowledge(cell, nearby_mines(cell))
GameInit == Init /\ height * width <= MaxGameCells

DriverFrame ==
    UNCHANGED <<height, width, board, moves_made, mines, safes, knowledge, idx,
                todo, cur, fresh, inferBase, prevBase, op, nreveals, nreruns,
                nmarks, due, constraint>>

\* make_safe_move() returned None: the driver calls make_random_move()
DriverRandomMove ==
    /\ pc = "safe_move_returned"
    /\ ret = None
    /\ IF RandomMoves(height, width, moves_made, mines) # {}
       THEN ret' \in RandomMoves(height, width, moves_made, mines)
       ELSE ret' = None
    /\ pc' = "random_move_returned"
    /\ DriverFrame

\* both returned None: the game stops
DriverStop ==
    /\ pc = "random_move_returned"
    /\ ret = None
    /\ pc' = "stopped"
    /\ ret' = ret
    /\ DriverFrame

\* the chosen cell is mined: the game stops
DriverLost ==
    /\ pc \in {"safe_move_returned", "random_move_returned"}
    /\ ret # None
    /\ is_mine(board, ret)
    /\ pc' = "lost"
    /\ ret' = ret
    /\ DriverFrame

\* the chosen cell is not mined: add_knowledge(cell, nearby_mines(cell)), lines
\* 181-204, up to and including the append; the guard on nreveals only ends a
\* game that has gone past one reveal per cell
DriverReveal ==
    /\ pc \in {"safe_move_returned", "random_move_returned"}
    /\ ret # None
    /\ ~is_mine(board, ret)
    /\ nreveals <= height * width
    /\ LET cell == ret
           count == nearby_mines(height, width, board, ret)
       IN /\ moves_made' = moves_made \cup {cell}
          /\ safes' = MarkSafeSet(safes, cell)
          /\ fresh' = NewSentence(height, width, safes', mines, cell, count)
          /\ knowledge' = Append(MarkSafeKnowledge(knowledge, cell), fresh')
          /\ cur' = <<cell, count>>
    /\ pc' = "propagate"
    /\ idx' = 1
    /\ todo' = {}
    /\ op' = "add_knowledge"
    /\ ret' = None
    /\ nreveals' = nreveals + 1
    /\ due' = ResolvableAt(knowledge)
    /\ UNCHANGED <<height, width, board, mines, inferBase, prevBase, nreruns,
                   nmarks, constraint>>

NextGame ==
    \/ MakeSafeMove
    \/ DriverRandomMove
    \/ DriverStop
    \/ DriverLost
    \/ DriverReveal
    \/ PropagateVisit
    \/ PropagateMarkMine
    \/ PropagateMarkSafe
    \/ AddKnowledgeInfer

SpecGame == GameInit /\ [][NextGame]_vars

\* the driver and the calls it makes run to completion: a step that can be
\* taken is taken
SpecGameFair == SpecGame /\ WF_vars(NextGame)

\* ------------------------------------------------ a Sentence of its own
\* Sentence(cells, count) for any cells of a grid of at most MaxSentenceCells
\* cells and any count from -1 to one more than the number of cells
SentenceInit ==
    /\ height \in 1..MaxSentenceCells
    /\ width \in 1..MaxSentenceCells
    /\ height * width <= MaxSentenceCells
    /\ board = {}
    /\ moves_made = {}
    /\ mines = {}
    /\ safes = {}
    /\ knowledge = <<>>
    /\ pc = "idle"
    /\ idx = 0
    /\ todo = {}
    /\ cur = <<None, 0>>
    /\ constraint \in {Sentence(cells, count) :
                         cells \in SUBSET Cells(height, width),
                         count \in -1..(height * width + 1)}
    /\ constraint.count <= Cardinality(constraint.cells) + 1
    /\ fresh = constraint
    /\ inferBase = 0
    /\ prevBase = 0
    /\ op = "Sentence"
    /\ ret = None
    /\ nreveals = 0
    /\ nreruns = 0
    /\ nmarks = 0
    /\ due = {}

SentenceFrame ==
    UNCHANGED <<height, width, board, moves_made, mines, safes, knowledge, pc, idx,
                todo, fresh, inferBase, prevBase, nreveals, nreruns, nmarks, due>>

\* constraint.mark_mine(cell)
SentenceMarkMineCall ==
    \E cell \in Cells(height, width) :
        /\ constraint' = SentenceMarkMine(constraint, cell)
        /\ op' = "Sentence.mark_mine"
        /\ cur' = <<cell>>
        /\ ret' = None
        /\ SentenceFrame

\* constraint.mark_safe(cell)
SentenceMarkSafeCall ==
    \E cell \in Cells(height, width) :
        /\ constraint' = SentenceMarkSafe(constraint, cell)
        /\ op' = "Sentence.mark_safe"
        /\ cur' = <<cell>>
        /\ ret' = None
        /\ SentenceFrame

\* constraint.known_mines()
KnownMinesCall ==
    /\ ret' = known_mines(constraint)
    /\ op' = "Sentence.known_mines"
    /\ cur' = <<>>
    /\ UNCHANGED constraint
    /\ SentenceFrame

\* constraint.known_safes()
KnownSafesCall ==
    /\ ret' = known_safes(constraint)
    /\ op' = "Sentence.known_safes"
    /\ cur' = <<>>
    /\ UNCHANGED constraint
    /\ SentenceFrame

NextSentence ==
    \/ SentenceMarkMineCall
    \/ SentenceMarkSafeCall
    \/ KnownMinesCall
    \/ KnownSafesCall

SpecSentence == SentenceInit /\ [][NextSentence]_vars

\* ------------------------------------------------------ the board alone
\* cells handed to the board's methods: the grid and one cell beyond each side
Around(h, w) == {<<i, j>> : i \in -1..h, j \in -1..w}

BoardFrame ==
    UNCHANGED <<height, width, board, moves_made, mines, safes, knowledge, pc, idx,
                todo, fresh, inferBase, prevBase, nreveals, nreruns, nmarks, due,
                constraint>>

\* game.is_mine(cell)
IsMineCall ==
    \E cell \in Around(height, width) :
        /\ ret' = IsMineResult(height, width, board, cell)
        /\ op' = "is_mine"
        /\ cur' = <<cell>>
        /\ BoardFrame

\* game.nearby_mines(cell)
NearbyMinesCall ==
    \E cell \in Around(height, width) :
        /\ ret' = NearbyMinesResult(height, width, board, cell)
        /\ op' = "nearby_mines"
        /\ cur' = <<cell>>
        /\ BoardFrame

NextBoard == IsMineCall \/ NearbyMinesCall

SpecBoard == Init /\ [][NextBoard]_vars

TypeOK ==
    /\ pc \in {"idle", "propagate", "mark_mines", "mark_safes",
             "safe_move_returned", "random_move_returned"}
    /\ mines \subseteq Cells(height, width)
    /\ safes \subseteq Cells(height, width)

\* ---------------------------------------------------------------- claims
\* positions of the model
Idle == pc = "idle"
InPropagation == pc \in {"propagate", "mark_mines", "mark_safes"}
\* add_knowledge has just returned
Returned == pc = "idle" /\ op = "infer"
Trivial == Sentence({}, 0)

\* C1: in every reachable state of a game, the states inside the propagation
\* pass included, no cell is in both mines and safes, and no step adds to one
\* set a cell that is already in the other.
C1_Disjoint ==
    [][/\ mines' \cap safes' = {}
       /\ (mines' \ mines) \cap safes = {}
       /\ (safes' \ safes) \cap mines = {}]_vars

\* a state inside the propagation pass, after a mark_mine, with known safes
C1_Witness ==
    /\ pc = "mark_mines"
    /\ op = "mark_mine"
    /\ mines # {}
    /\ Cardinality(safes) >= 2

\* C2: fed with true board data, every cell of mines is mined on the board,
\* every cell of safes is not, and make_safe_move never returns a mined cell.
C2_Sound ==
    /\ mines \subseteq board
    /\ safes \cap board = {}
    /\ (pc = "safe_move_returned" /\ ret # None) => ~is_mine(board, ret)

\* make_safe_move returns an unplayed safe cell while a mine is known
C2_Witness ==
    /\ pc = "safe_move_returned"
    /\ ret # None
    /\ mines # {}
    /\ safes \ moves_made # {}

\* C3: add_knowledge(cell, count) adds cell to moves_made and to safes, then
\* appends exactly one constraint: its cells are the in-bounds cells adjacent to
\* cell (never cell itself) that are in neither safes nor mines at that moment,
\* its count is count minus the number of adjacent cells in mines.
C3_Adjacent(a, b) ==
    /\ a # b
    /\ a[1] - b[1] \in {-1, 0, 1}
    /\ a[2] - b[2] \in {-1, 0, 1}

C3_NewConstraint ==
    [][(pc = "idle" /\ pc' = "propagate") =>
        LET cell == cur'[1]
            count == cur'[2]
            last == knowledge'[Len(knowledge')]
        IN /\ moves_made' = moves_made \cup {cell}
           /\ safes' = safes \cup {cell}
           /\ mines' = mines
           /\ Len(knowledge') = Len(knowledge) + 1
           /\ last.cells = {n \in Cells(height, width) :
                               /\ C3_Adjacent(n, cell)
                               /\ n \notin safes'
                               /\ n \notin mines}
           /\ cell \notin last.cells
           /\ last.count = count - Cardinality({n \in mines : C3_Adjacent(n, cell)})
      ]_vars

\* the prologue has run for a cell with a known mine, a known safe cell and an
\* undetermined cell among its neighbours
C3_Witness ==
    /\ pc = "propagate"
    /\ op = "add_knowledge"
    /\ \E n \in mines : C3_Adjacent(n, cur[1])
    /\ \E n \in safes : C3_Adjacent(n, cur[1])
    /\ fresh.cells # {}
    /\ cur[2] > 0

\* C4: when add_knowledge returns, if the constraint it built had count 0 all
\* its cells are in safes, if its count was its non-zero number of cells all its
\* cells are in mines, and in both cases it is left as the trivial constraint.
C4_FreshResolved ==
    Returned =>
        /\ fresh.count = 0 => fresh.cells \subseteq safes
        /\ (fresh.count = Cardinality(fresh.cells) /\ fresh.count > 0)
              => fresh.cells \subseteq mines
        /\ Resolvable(fresh) => knowledge[inferBase] = Trivial

\* a call has returned whose constraint had as many cells as mines, after an
\* earlier call whose constraint was not resolvable
C4_Witness ==
    /\ Returned
    /\ fresh.count = Cardinality(fresh.cells)
    /\ fresh.count > 0
    /\ inferBase >= 2
    /\ fresh.cells \subseteq mines

\* C5: after the elimination pass, for every ordered pair (A, B) of constraints
\* that were in the knowledge base when the pass started, are not equal (cells
\* and count) and have A.cells a subset of B.cells, the knowledge base
\* contains a constraint equal to (B.cells - A.cells, B.count - A.count).
C5_PairsComplete ==
    Returned =>
        \A i \in 1..inferBase, j \in 1..inferBase :
            (knowledge[i] # knowledge[j]
                /\ knowledge[i].cells \subseteq knowledge[j].cells)
            => \E k \in 1..Len(knowledge) :
                /\ knowledge[k].cells = knowledge[j].cells \ knowledge[i].cells
                /\ knowledge[k].count = knowledge[j].count - knowledge[i].count

\* the pass has derived a new constraint from a pair of non-empty constraints
C5_Witness ==
    /\ Returned
    /\ \E i \in 1..inferBase, j \in 1..inferBase, k \in (inferBase + 1)..Len(knowledge) :
        /\ knowledge[i].cells # {}
        /\ knowledge[i] # knowledge[j]
        /\ knowledge[i].cells \subseteq knowledge[j].cells
        /\ knowledge[k].cells = knowledge[j].cells \ knowledge[i].cells
        /\ knowledge[k].count = knowledge[j].count - knowledge[i].count

\* C6 as stated: a second run of the elimination pass, with no add_knowledge,
\* mark_mine or mark_safe call since the first, adds no constraint.
C6_Idempotent ==
    (pc = "idle" /\ op = "infer_rerun") => Len(knowledge) = inferBase

\* C6 as amended: a second run of the elimination pass keeps the list the first
\* run left and appends only constraints derived from a pair of which at least
\* one constraint was appended by the first run; it adds nothing when the first
\* run added nothing.
C6_SecondRunFromNew ==
    (pc = "idle" /\ op = "infer_rerun") =>
        /\ inferBase <= Len(knowledge)
        /\ prevBase = inferBase => Len(knowledge) = inferBase
        /\ \A k \in (inferBase + 1)..Len(knowledge) :
            \E i \in 1..inferBase, j \in 1..inferBase :
                /\ i > prevBase \/ j > prevBase
                /\ knowledge[i] # knowledge[j]
                /\ knowledge[i].cells \subseteq knowledge[j].cells
                /\ knowledge[k].cells = knowledge[j].cells \ knowledge[i].cells
                /\ knowledge[k].count = knowledge[j].count - knowledge[i].count

\* the second run appended a constraint
C6_Witness ==
    /\ pc = "idle"
    /\ op = "infer_rerun"
    /\ prevBase < inferBase
    /\ inferBase < Len(knowledge)

\* C7: add_knowledge walks the constraint list once (the loop index never goes
\* back), then runs the elimination pass once and returns; the elimination pass
\* changes none of mines, safes, moves_made, so no cell of a resolvable
\* constraint it derived is marked in the call that derived it.
C7_SinglePass ==
    [][/\ (InPropagation /\ pc' # "idle") =>
            /\ InPropagation'
            /\ idx' \in {idx, idx + 1}
            /\ Len(knowledge') = Len(knowledge)
       /\ (InPropagation /\ pc' = "idle") =>
            /\ idx = Len(knowledge) + 1
            /\ mines' = mines /\ safes' = safes /\ moves_made' = moves_made
            /\ \A k \in (inferBase' + 1)..Len(knowledge') :
                Resolvable(knowledge'[k]) =>
                    knowledge'[k].cells \cap (mines' \cup safes') = {}
      ]_vars

\* a call has returned leaving a derived constraint that is resolvable and
\* whose cells are not marked yet
C7_Witness ==
    /\ Returned
    /\ \E k \in (inferBase + 1)..Len(knowledge) :
        /\ knowledge[k].cells # {}
        /\ Resolvable(knowledge[k])
        /\ knowledge[k].cells \cap (mines \cup safes) = {}

\* C8: make_safe_move returns a cell of safes that is not in moves_made when
\* there is one, None exactly when every cell of safes is in moves_made, and
\* changes none of mines, safes, moves_made and the constraint list.
C8_SafeMove ==
    [][(pc = "idle" /\ pc' = "safe_move_returned") =>
        /\ (\E c \in safes : c \notin moves_made) =>
                (ret' # None /\ ret' \in safes /\ ret' \notin moves_made)
        /\ ret' = None <=> safes \subseteq moves_made
        /\ UNCHANGED <<mines, safes, moves_made, knowledge>>
      ]_vars

\* make_safe_move returned a cell while other safe cells were already played
C8_Witness ==
    /\ pc = "safe_move_returned"
    /\ ret # None
    /\ Cardinality(moves_made) >= 2
    /\ mines # {}

\* C9: make_random_move returns a cell of the grid that is neither in
\* moves_made nor in mines when there is one, None exactly when there is none,
\* and changes nothing of the knowledge base; also where make_safe_move
\* returns None.
C9_RandomMove ==
    [][(pc = "idle" /\ pc' = "random_move_returned") =>
        LET free == {c \in Cells(height, width) : c \notin moves_made /\ c \notin mines}
        IN /\ free # {} => (ret' # None /\ ret' \in free)
           /\ ret' = None <=> free = {}
           /\ ret' # None => in_range(height, width, ret')
           /\ UNCHANGED <<mines, safes, moves_made, knowledge>>
      ]_vars

\* make_random_move returned a cell in a state where make_safe_move returns
\* None and a mine is known
C9_Witness ==
    /\ pc = "random_move_returned"
    /\ ret # None
    /\ safes \subseteq moves_made
    /\ mines # {}

\* C10: in every reachable state of a game every constraint of the knowledge
\* base has 0 <= count <= |cells|.
C10_CountInRange ==
    \A i \in 1..Len(knowledge) :
        /\ 0 <= knowledge[i].count
        /\ knowledge[i].count <= Cardinality(knowledge[i].cells)

\* the knowledge base holds a constraint shrunk by mark_mine to a non-trivial
\* one and a constraint derived by elimination
C10_Witness ==
    /\ Returned
    /\ mines # {}
    /\ inferBase < Len(knowledge)
    /\ \E i \in 1..inferBase : knowledge[i].count > 0

\* C11: Sentence.mark_mine(cell) on a constraint that holds cell removes cell,
\* keeps every other cell and lowers count by exactly 1, and changes nothing
\* when the constraint does not hold cell; Sentence.mark_safe(cell) removes cell
\* and keeps count when the constraint holds cell, and changes nothing otherwise.
C11_SentenceMarks ==
    [][/\ op' = "Sentence.mark_mine" =>
            IF cur'[1] \in constraint.cells
            THEN /\ cur'[1] \notin constraint'.cells
                 /\ constraint'.cells \cup {cur'[1]} = constraint.cells
                 /\ constraint'.count = constraint.count - 1
            ELSE constraint' = constraint
       /\ op' = "Sentence.mark_safe" =>
            IF cur'[1] \in constraint.cells
            THEN /\ cur'[1] \notin constraint'.cells
                 /\ constraint'.cells \cup {cur'[1]} = constraint.cells
                 /\ constraint'.count = constraint.count
            ELSE constraint' = constraint
      ]_vars

\* mark_mine(cell) has removed a cell of a constraint that had been shrunk by
\* mark_safe before, and other cells are left
C11_Witness ==
    /\ op = "Sentence.mark_mine"
    /\ cur[1] \in fresh.cells
    /\ cur[1] \notin constraint.cells
    /\ constraint.cells # {}
    /\ Cardinality(constraint.cells) + 2 <= Cardinality(fresh.cells)
    /\ constraint.count = fresh.count - 1

\* C12: known_mines() returns exactly the cells of the constraint when
\* |cells| = count > 0 and no cells in every other case; known_safes() returns
\* exactly the cells when count = 0 and no cells in every other case; neither
\* changes the constraint.
C12_KnownCells ==
    [][/\ op' = "Sentence.known_mines" =>
            /\ (Cardinality(constraint.cells) = constraint.count /\ constraint.count > 0)
                  => ret' = constraint.cells
            /\ ~(Cardinality(constraint.cells) = constraint.count /\ constraint.count > 0)
                  => ret' = {}
            /\ constraint' = constraint
       /\ op' = "Sentence.known_safes" =>
            /\ constraint.count = 0 => ret' = constraint.cells
            /\ constraint.count # 0 => ret' = {}
            /\ constraint' = constraint
      ]_vars

\* known_safes() has returned the two or more cells of a constraint
C12_Witness ==
    /\ op = "Sentence.known_safes"
    /\ Cardinality(ret) >= 2
    /\ ret = constraint.cells
    /\ constraint.count = 0

\* C13: is_mine(cell) and nearby_mines(cell) fail with the out-of-range error
\* exactly for the cells outside [0,height) x [0,width) and leave the board as it
\* is; for a cell of the grid is_mine returns whether it is mined and
\* nearby_mines the number of mined cells of the grid adjacent to it, the cell
\* itself not counted.
C13_BoardBounds ==
    [][(op' \in {"is_mine", "nearby_mines"}) =>
        LET cell == cur'[1]
            inside == cell \in Cells(height, width)
        IN /\ UNCHANGED <<height, width, board>>
           /\ ret'.raised <=> ~inside
           /\ ret'.raised => ret'.value = "out of range!"
           /\ (inside /\ op' = "is_mine") => ret'.value = (cell \in board)
           /\ (inside /\ op' = "nearby_mines") =>
                ret'.value = Cardinality({n \in Cells(height, width) :
                                            n \in board /\ C3_Adjacent(n, cell)})
      ]_vars

\* nearby_mines has returned for a mined cell with a mined neighbour
C13_Witness ==
    /\ op = "nearby_mines"
    /\ ~ret.raised
    /\ cur[1] \in board
    /\ ret.value = 1
    /\ Cardinality(board) = 2

\* C14: the elimination pass appends no duplicate: the constraints appended by
\* one pass are pairwise unequal (cells and count) and unequal to every
\* constraint that was in the knowledge base before the pass.
C14_NoDuplicate ==
    Returned =>
        \A k \in (inferBase + 1)..Len(knowledge) :
            /\ \A i \in 1..inferBase : knowledge[i] # knowledge[k]
            /\ \A m \in (inferBase + 1)..Len(knowledge) :
                  m # k => knowledge[m] # knowledge[k]

\* a pass has appended, once, a constraint that two different pairs of
\* constraints yield
C14_Witness ==
    /\ Returned
    /\ \E i1, j1, i2, j2 \in 1..inferBase, k \in (inferBase + 1)..Len(knowledge) :
        /\ <<i1, j1>> # <<i2, j2>>
        /\ knowledge[i1] # knowledge[j1]
        /\ knowledge[i2] # knowledge[j2]
        /\ knowledge[i1].cells \subseteq knowledge[j1].cells
        /\ knowledge[i2].cells \subseteq knowledge[j2].cells
        /\ knowledge[k] = Sentence(knowledge[j1].cells \ knowledge[i1].cells,
                                   knowledge[j1].count - knowledge[i1].count)
        /\ knowledge[k] = Sentence(knowledge[j2].cells \ knowledge[i2].cells,
                                   knowledge[j2].count - knowledge[i2].count)

C16_Monotonic ==
    [][/\ mines \subseteq mines'
       /\ safes \subseteq safes'
       /\ moves_made \subseteq moves_made'
       /\ Len(knowledge') >= Len(knowledge)
       /\ \A i \in 1..Len(knowledge) : knowledge'[i].cells \subseteq knowledge[i].cells
       /\ (pc = "idle" /\ pc' = "propagate") => Len(knowledge') >= Len(knowledge) + 1
      ]_vars

\* an add_knowledge has returned after a direct mark, with a constraint emptied
\* on the way
C16_Witness ==
    /\ Returned
    /\ nmarks > 0
    /\ \E i \in 1..Len(knowledge) : knowledge[i].cells = {}
    /\ mines # {}
    /\ Cardinality(safes) >= 2

\* C17: after any sequence of add_knowledge calls every cell of moves_made is
\* in safes
C17_MovesSafe == moves_made \subseteq safes

\* two add_knowledge calls have been made, one of them for a mined cell, with
\* no direct mark
C17_Witness ==
    /\ Returned
    /\ nmarks = 0
    /\ Cardinality(moves_made) >= 2
    /\ moves_made \cap board # {}

\* C18: in a game fed with true board data, every constraint that was in the
\* knowledge base and resolvable (count = 0, or count = |cells| > 0) when
\* add_knowledge was called has all its cells in safes, respectively in mines,
\* and is the constraint ({}, 0) when that call returns
C18_DueResolved ==
    Returned =>
        \A d \in due :
            /\ d[2].count = 0 => d[2].cells \subseteq safes
            /\ d[2].count = Cardinality(d[2].cells) => d[2].cells \subseteq mines
            /\ knowledge[d[1]] = Trivial

\* a call has returned that found a resolvable constraint, and a constraint it
\* visited is resolvable with cells left: it became resolvable only after its
\* visit
C18_Witness ==
    /\ Returned
    /\ due # {}
    /\ \E i \in 1..inferBase : Resolvable(knowledge[i]) /\ knowledge[i].cells # {}

\* C19: in a game fed with true board data, when add_knowledge has returned no
\* constraint mentions a cell that is in mines or in safes
C19_NoMarkedCells ==
    Returned =>
        \A i \in 1..Len(knowledge) :
            knowledge[i].cells \cap (mines \cup safes) = {}

\* a call has returned with a cell marked by propagation, and an earlier
\* constraint and a derived constraint both still have cells
C19_Witness ==
    /\ Returned
    /\ (mines \cup safes) \ moves_made # {}
    /\ \E i \in 1..(inferBase - 1) : knowledge[i].cells # {}
    /\ \E k \in (inferBase + 1)..Len(knowledge) : knowledge[k].cells # {}

\* C20: in a game fed with true board data, between operations every constraint
\* is true of the board: the number of mined cells among its cells is its count
C20_TrueOfBoard ==
    Idle =>
        \A i \in 1..Len(knowledge) :
            Cardinality(knowledge[i].cells \cap board) = knowledge[i].count

\* between operations the knowledge base holds a derived constraint with a
\* mine and a cell that is not mined, and an earlier constraint of the same kind
C20_Witness ==
    /\ Idle
    /\ \E k \in (inferBase + 1)..Len(knowledge) :
        /\ knowledge[k].count >= 1
        /\ Cardinality(knowledge[k].cells) > knowledge[k].count
    /\ \E i \in 1..(inferBase - 1) :
        knowledge[i].count >= 1 /\ Cardinality(knowledge[i].cells) > knowledge[i].count

\* the game has stopped
GameOver == pc \in {"stopped", "lost"}

\* C21: in a game played by the driver every cell the driver is given is not yet
\* in moves_made, every reveal adds a cell to moves_made that was not in it, there
\* are never more than height x width reveals, every add_knowledge call that has
\* started returns, and the game stops
C21_GameTerminates ==
    /\ [](pc \in {"safe_move_returned", "random_move_returned"} /\ ret # None
            => ret \notin moves_made)
    /\ [][nreveals' = nreveals + 1 =>
            /\ cur'[1] \notin moves_made
            /\ moves_made' = moves_made \cup {cur'[1]}
            /\ Cardinality(moves_made') = nreveals']_vars
    /\ [](nreveals <= height * width)
    /\ (InPropagation ~> Returned)
    /\ <>GameOver

\* a game on a board with a mine has stopped with both moves None after the
\* driver revealed every cell that is not mined, four or more of them
C21_Witness ==
    /\ pc = "stopped"
    /\ board # {}
    /\ nreveals >= 4
    /\ nreveals = height * width - Cardinality(board)
    /\ moves_made = Cells(height, width) \ board

====
